---- MODULE Spec2Model ----
(***************************************************************************)
(* iso::parameters_pack (src/parameters_pack.hpp): three constexpr         *)
(* operations over a variadic pack of typed constant values.               *)
(*                                                                         *)
(*   types<L...>::check(params...)      every parameter's type is in L     *)
(*   no_duplicates(params...)           no two parameters share a type     *)
(*   value<T, d>::extract(params...)    the value of type T, or d          *)
(*                                                                         *)
(* A parameter is a record [type, val]: its static type and the value it   *)
(* holds.  Every operation is selected by C++ overload resolution on the   *)
(* static types of its arguments; the operators below compute what the     *)
(* selected overload computes.                                             *)
(***************************************************************************)
EXTENDS Naturals, Sequences, FiniteSets

VARIABLES params, call, list, Type, supplied, defaultValue, result, pc, rest, steps

vars == <<params, call, list, Type, supplied, defaultValue, result, pc, rest, steps>>

(***************************************************************************)
(* Bounds of the model.                                                    *)
(***************************************************************************)
\* longest parameter pack
MaxPack == 3
\* longest allowed type list  types<TypeFirst, TypesRest...>
MaxList == 2

(***************************************************************************)
(* The universe of parameters.  "Pull" is a scoped enumeration (Readme.md  *)
(* line 29): nothing converts to it implicitly.  "int" and "long" are      *)
(* scalar types that convert to each other implicitly, so an overload      *)
(* taking one of them by value is viable for an argument of the other.     *)
(***************************************************************************)
Types == {"Pull", "int", "long"}

ImplicitConversions == {<<"int", "long">>, <<"long", "int">>}

\* the values a parameter of any of the types can hold
Values == {0, 1}

\* Type{} : the value-initialized value of a type
ValueInitialized == 0

Params == [type : Types, val : Values]

RECURSIVE SeqsUpTo(_, _)
SeqsUpTo(S, n) ==
    IF n = 0 THEN {<<>>}
    ELSE LET shorter == SeqsUpTo(S, n - 1)
         IN  shorter \cup {Append(s, x) : s \in {t \in shorter : Len(t) = n - 1}, x \in S}

\* every pack  const auto... params  of at most MaxPack parameters
Packs == SeqsUpTo(Params, MaxPack)

\* every type list  <TypeFirst, TypesRest...> : at least one type
TypeLists == SeqsUpTo(Types, MaxList) \ {<<>>}

\* the default of value<Type> (omitted) or value<Type, d>
DefaultArgs == {<<>>} \cup {<<d>> : d \in Values}

TypeOf(value) == value.type

(***************************************************************************)
(* Overload resolution between a function whose parameter is the fixed     *)
(* type paramT, taken by value, and a function template whose parameter    *)
(* type is deduced.  The fixed-type function is viable when the argument   *)
(* converts to paramT; the template is always viable with an exact match.  *)
(* The better conversion wins, and on equal conversions the non-template   *)
(* (or more specialized) function wins: the fixed-type function is         *)
(* selected exactly when the argument's type is paramT itself.             *)
(***************************************************************************)
Viable(argT, paramT) == argT = paramT \/ <<argT, paramT>> \in ImplicitConversions

SelectsFixedTypeIfViable(argT, paramT) == Viable(argT, paramT)

SelectsFixedType(argT, paramT) ==
    /\ Viable(argT, paramT)
    /\ argT = paramT

(***************************************************************************)
(* struct check_v                                                          *)
(***************************************************************************)
RECURSIVE list_contains_param_v_no_last(_, _)
list_contains_param_v_no_last(TypeList, value) ==
    IF Len(TypeList) = 1 THEN FALSE
    ELSE IF SelectsFixedType(TypeOf(value), Head(TypeList)) THEN TRUE
    ELSE list_contains_param_v_no_last(Tail(TypeList), value)

\* check_v<TypeFirst, TypesRest...>::list_contains_param_v(value)
RECURSIVE list_contains_param_v(_, _)
list_contains_param_v(TypeList, value) ==
    IF SelectsFixedType(TypeOf(value), Head(TypeList)) THEN TRUE
    ELSE IF Len(TypeList) = 1 THEN FALSE
    ELSE list_contains_param_v(Tail(TypeList), value)

params_types_v_first_only(TypeList, pack) ==
    IF pack = <<>> THEN TRUE
    ELSE list_contains_param_v(TypeList, Head(pack))

\* check_v<TypeFirst, TypesRest...>::params_types_v(pack...)
RECURSIVE params_types_v(_, _)
params_types_v(TypeList, pack) ==
    IF pack = <<>> THEN TRUE
    ELSE IF list_contains_param_v(TypeList, Head(pack))
         THEN params_types_v(TypeList, Tail(pack))
         ELSE FALSE

(***************************************************************************)
(* struct duplicate                                                        *)
(***************************************************************************)
is_same_v_by_value(a, b) == TypeOf(a) = TypeOf(b) /\ a.val = b.val

\* is_same_v(const T, const T) is deduced only for two arguments of one
\* type and is then the more specialized overload; otherwise (T, U).
is_same_v(a, b) == TypeOf(a) = TypeOf(b)

is_duplicates_v_head_only(pack) ==
    IF Len(pack) <= 1 THEN TRUE
    ELSE \A i \in 2..Len(pack) : ~is_same_v(Head(pack), pack[i])

\* duplicate::is_duplicates_v(pack...)
RECURSIVE is_duplicates_v(_)
is_duplicates_v(pack) ==
    IF pack = <<>> THEN TRUE
    ELSE IF Len(pack) = 1 THEN TRUE
    ELSE /\ \A i \in 2..Len(pack) : ~is_same_v(Head(pack), pack[i])
         /\ is_duplicates_v(Tail(pack))

(***************************************************************************)
(* The public operations                                                   *)
(***************************************************************************)
\* template <typename Type, const Type defaultValue = Type{}> struct value :
\* given is the default as written at the call site, <<>> when it is omitted
value_defaultValue(given) == IF given = <<>> THEN ValueInitialized ELSE given[1]

RECURSIVE extract_last(_, _, _)
extract_last(T, d, pack) ==
    IF pack = <<>> THEN d
    ELSE IF SelectsFixedType(TypeOf(pack[Len(pack)]), T) THEN pack[Len(pack)].val
    ELSE extract_last(T, d, SubSeq(pack, 1, Len(pack) - 1))

RECURSIVE extract_zero_on_empty(_, _, _)
extract_zero_on_empty(T, d, pack) ==
    IF pack = <<>> THEN ValueInitialized
    ELSE IF Len(pack) = 1
         THEN IF SelectsFixedType(TypeOf(Head(pack)), T) THEN Head(pack).val ELSE d
    ELSE IF SelectsFixedType(TypeOf(Head(pack)), T) THEN Head(pack).val
    ELSE extract_zero_on_empty(T, d, Tail(pack))

RECURSIVE extract_zero_on_miss(_, _, _)
extract_zero_on_miss(T, d, pack) ==
    IF pack = <<>> THEN d
    ELSE IF Len(pack) = 1
         THEN IF SelectsFixedType(TypeOf(Head(pack)), T) THEN Head(pack).val
              ELSE ValueInitialized
    ELSE IF SelectsFixedType(TypeOf(Head(pack)), T) THEN Head(pack).val
    ELSE extract_zero_on_miss(T, d, Tail(pack))

extract_head_only(T, d, pack) ==
    IF pack = <<>> THEN d
    ELSE IF SelectsFixedType(TypeOf(Head(pack)), T) THEN Head(pack).val
    ELSE d

\* value<Type, defaultValue>::extract(pack...)
RECURSIVE extract(_, _, _)
extract(T, d, pack) ==
    IF pack = <<>> THEN d
    ELSE IF Len(pack) = 1
         THEN IF SelectsFixedType(TypeOf(Head(pack)), T) THEN Head(pack).val ELSE d
    ELSE IF SelectsFixedType(TypeOf(Head(pack)), T) THEN Head(pack).val
    ELSE extract(T, d, Tail(pack))

\* types<TypeFirst, TypesRest...>::check(pack...)
check(TypeList, pack) ==
    IF pack = <<>> THEN TRUE
    ELSE params_types_v(TypeList, pack)

\* parameters_pack::no_duplicates(pack...)
no_duplicates(pack) ==
    IF pack = <<>> THEN TRUE
    ELSE IF Len(pack) = 1 THEN TRUE
    ELSE is_duplicates_v(pack)

(***************************************************************************)
(* Spec: one instantiation with the pack params, in which one of the       *)
(* operations is applied to the pack.                                      *)
(***************************************************************************)
Init ==
    /\ params \in Packs
    /\ call = "none"
    /\ list = <<>>
    /\ Type = "none"
    /\ supplied = <<>>
    /\ defaultValue = ValueInitialized
    /\ result = <<>>
    /\ pc = "none"
    /\ rest = <<>>
    /\ steps = 0

\* iso::parameters_pack::types<L...>::check(params...)
Check ==
    /\ call = "none"
    /\ \E L \in TypeLists :
          /\ list' = L
          /\ result' = <<check(L, params)>>
    /\ call' = "check"
    /\ UNCHANGED <<params, Type, supplied, defaultValue, pc, rest, steps>>

\* iso::parameters_pack::no_duplicates(params...)
NoDuplicates ==
    /\ call = "none"
    /\ call' = "no_duplicates"
    /\ result' = <<no_duplicates(params)>>
    /\ UNCHANGED <<params, list, Type, supplied, defaultValue, pc, rest, steps>>

\* iso::parameters_pack::value<T>::extract(params...)  and
\* iso::parameters_pack::value<T, d>::extract(params...)
Extract ==
    /\ call = "none"
    /\ \E T \in Types, given \in DefaultArgs :
          /\ Type' = T
          /\ supplied' = given
          /\ defaultValue' = value_defaultValue(given)
          /\ result' = <<extract(T, value_defaultValue(given), params)>>
    /\ call' = "extract"
    /\ UNCHANGED <<params, list, pc, rest, steps>>

Next == Check \/ NoDuplicates \/ Extract

Spec == Init /\ [][Next]_vars

(***************************************************************************)
(* SpecEval: the evaluation of one call, one function invocation per step. *)
(* pc names the function entered, rest is the pack it is entered with, and *)
(* steps counts the recursive calls made so far (a function calling        *)
(* itself on the remainder of its pack).                                   *)
(***************************************************************************)
InitEval ==
    /\ params \in Packs
    /\ \/ /\ call = "check"
          /\ list \in TypeLists
          /\ Type = "none"
          /\ supplied = <<>>
          /\ defaultValue = ValueInitialized
       \/ /\ call = "no_duplicates"
          /\ list = <<>>
          /\ Type = "none"
          /\ supplied = <<>>
          /\ defaultValue = ValueInitialized
       \/ /\ call = "extract"
          /\ list = <<>>
          /\ Type \in Types
          /\ supplied \in DefaultArgs
          /\ defaultValue = value_defaultValue(supplied)
    /\ pc = call
    /\ result = <<>>
    /\ rest = params
    /\ steps = 0

Return(r) ==
    /\ result' = <<r>>
    /\ pc' = "done"
    /\ UNCHANGED <<rest, steps>>

Recurse ==
    /\ rest' = Tail(rest)
    /\ steps' = steps + 1
    /\ UNCHANGED <<result, pc>>

\* types<L...>::check : the empty overload, or the call of params_types_v
Eval_check ==
    /\ pc = "check"
    /\ IF rest = <<>>
       THEN Return(TRUE)
       ELSE /\ pc' = "params_types_v"
            /\ UNCHANGED <<result, rest, steps>>
    /\ UNCHANGED <<params, call, list, Type, supplied, defaultValue>>

\* check_v::params_types_v
Eval_params_types_v ==
    /\ pc = "params_types_v"
    /\ IF rest = <<>>
       THEN Return(TRUE)
       ELSE IF list_contains_param_v(list, Head(rest))
            THEN Recurse
            ELSE Return(FALSE)
    /\ UNCHANGED <<params, call, list, Type, supplied, defaultValue>>

\* no_duplicates : the empty and the one-parameter overloads, or the call
\* of duplicate::is_duplicates_v
Eval_no_duplicates ==
    /\ pc = "no_duplicates"
    /\ IF Len(rest) <= 1
       THEN Return(TRUE)
       ELSE /\ pc' = "is_duplicates_v"
            /\ UNCHANGED <<result, rest, steps>>
    /\ UNCHANGED <<params, call, list, Type, supplied, defaultValue>>

\* duplicate::is_duplicates_v
Eval_is_duplicates_v ==
    /\ pc = "is_duplicates_v"
    /\ IF Len(rest) <= 1
       THEN Return(TRUE)
       ELSE IF \A i \in 2..Len(rest) : ~is_same_v(Head(rest), rest[i])
            THEN Recurse
            ELSE Return(FALSE)
    /\ UNCHANGED <<params, call, list, Type, supplied, defaultValue>>

Eval_extract_keeps_first ==
    /\ pc = "extract"
    /\ steps <= MaxPack
    /\ IF rest = <<>>
       THEN Return(defaultValue)
       ELSE IF SelectsFixedType(TypeOf(Head(rest)), Type)
            THEN Return(Head(rest).val)
            ELSE /\ steps' = steps + 1
                 /\ UNCHANGED <<result, pc, rest>>
    /\ UNCHANGED <<params, call, list, Type, supplied, defaultValue>>

\* value<Type, defaultValue>::extract
Eval_extract ==
    /\ pc = "extract"
    /\ IF rest = <<>>
       THEN Return(defaultValue)
       ELSE IF SelectsFixedType(TypeOf(Head(rest)), Type)
            THEN Return(Head(rest).val)
            ELSE IF Len(rest) = 1
                 THEN Return(defaultValue)
                 ELSE Recurse
    /\ UNCHANGED <<params, call, list, Type, supplied, defaultValue>>

NextEval ==
    \/ Eval_check
    \/ Eval_params_types_v
    \/ Eval_no_duplicates
    \/ Eval_is_duplicates_v
    \/ Eval_extract

SpecEval == InitEval /\ [][NextEval]_vars /\ WF_vars(NextEval)

\* what the call under evaluation returns
Returned ==
    CASE call = "check" -> check(list, params)
      [] call = "no_duplicates" -> no_duplicates(params)
      [] call = "extract" -> extract(Type, defaultValue, params)

(***************************************************************************)
(* The vocabulary of the properties.                                       *)
(***************************************************************************)
\* the set of types a type list names
TypesOf(TypeList) == {TypeList[i] : i \in 1..Len(TypeList)}

\* the positions of the pack that hold a parameter of type T
Matches(T, pack) == {i \in 1..Len(pack) : TypeOf(pack[i]) = T}

Leftmost(S) == CHOOSE i \in S : \A j \in S : i <= j

PairwiseDistinctTypes(pack) ==
    \A i, j \in 1..Len(pack) : i < j => TypeOf(pack[i]) # TypeOf(pack[j])

AllMembers(TypeList, pack) ==
    \A i \in 1..Len(pack) : TypeOf(pack[i]) \in TypesOf(TypeList)

\* the reorderings of n positions; Permuted(pack, f) puts pack[f[i]] at i
Permutations(n) ==
    {f \in [1..n -> 1..n] : \A i, j \in 1..n : f[i] = f[j] => i = j}

Permuted(pack, f) == [i \in 1..Len(pack) |-> pack[f[i]]]

\* recursive calls made plus parameters left never exceed the pack length;
\* a call that has not returned can take its next step; a returned result
\* is a boolean (check, no_duplicates) or a value of the requested type
\* (extract), the one the operation computes
C7_Bounded ==
    /\ steps + Len(rest) <= Len(params)
    /\ pc # "done" => ENABLED NextEval
    /\ pc = "done" =>
          /\ Len(result) = 1
          /\ call \in {"check", "no_duplicates"} => result[1] \in BOOLEAN
          /\ call = "extract" => result[1] \in Values
          /\ result[1] = Returned

\* C7: every evaluation of check, no_duplicates and extract is a recursion
\* on the pack that makes at most Len(params) recursive calls, never ends
\* in an error, and returns a boolean or a value of the requested type,
\* also on packs with disallowed or duplicated types.
C7_Total == []C7_Bounded /\ <>(pc = "done")

C7_Witness ==
    /\ pc = "done"
    /\ call = "check"
    /\ steps = Len(params)
    /\ Len(params) = MaxPack
    /\ result = <<TRUE>>

\* C1: types<L...>::check(params...) is true exactly when the type of every
\* parameter is one of the types of L.
C1_CheckIffAllMember ==
    call = "check" => result[1] = AllMembers(list, params)

\* a pack whose only disallowed parameter comes last, after allowed ones,
\* and converts implicitly to an allowed type
C1_Witness ==
    /\ call = "check"
    /\ Len(params) >= 2
    /\ \A i \in 1..(Len(params) - 1) : TypeOf(params[i]) \in TypesOf(list)
    /\ TypeOf(params[Len(params)]) \notin TypesOf(list)
    /\ \E t \in TypesOf(list) : Viable(TypeOf(params[Len(params)]), t)
    /\ result = <<FALSE>>

\* C2: no_duplicates(params...) is true exactly when no two parameters at
\* distinct positions have the same type, whatever their values.
C2_NoDuplicatesIffDistinctTypes ==
    call = "no_duplicates" => result[1] = PairwiseDistinctTypes(params)

\* the first and the last parameter have one type and one value
C2_Witness ==
    /\ call = "no_duplicates"
    /\ Len(params) = 3
    /\ params[1] = params[3]
    /\ TypeOf(params[2]) # TypeOf(params[1])
    /\ result = <<FALSE>>

\* C3: value<Type, defaultValue>::extract(params...) is the value of the
\* leftmost parameter of type Type, and defaultValue when there is none.
C3_ExtractLeftmostOrDefault ==
    call = "extract" =>
        result[1] = IF Matches(Type, params) = {}
                    THEN defaultValue
                    ELSE params[Leftmost(Matches(Type, params))].val

\* two parameters of the requested type with different values, the first
\* of them not at the head of the pack
C3_Witness ==
    /\ call = "extract"
    /\ Len(params) = 3
    /\ Matches(Type, params) = {2, 3}
    /\ params[2].val # params[3].val
    /\ params[2].val # defaultValue
    /\ result = <<params[2].val>>

\* C4: reordering the pack changes neither check nor no_duplicates; it
\* changes extract only when the pack holds two or more parameters of the
\* requested type and another of them comes first, so never on a pack that
\* no_duplicates accepts.
C4_OrderIndependent ==
    \A f \in Permutations(Len(params)) :
        LET q == Permuted(params, f)
        IN  /\ call = "check" => check(list, q) = result[1]
            /\ call = "no_duplicates" => no_duplicates(q) = result[1]
            /\ call = "extract" =>
                  /\ extract(Type, defaultValue, q) # result[1] =>
                        /\ Cardinality(Matches(Type, params)) >= 2
                        /\ f[Leftmost(Matches(Type, q))] # Leftmost(Matches(Type, params))
                  /\ no_duplicates(params) =>
                        extract(Type, defaultValue, q) = result[1]

\* no_duplicates on a pack with a repeated type that is not at its head
C4_Witness ==
    /\ call = "no_duplicates"
    /\ Len(params) = 3
    /\ TypeOf(params[2]) = TypeOf(params[3])
    /\ TypeOf(params[1]) # TypeOf(params[2])
    /\ result = <<FALSE>>

\* C5: on the empty pack check is true, no_duplicates is true and extract
\* is the configured default; no_duplicates is true on every one-parameter
\* pack.
C5_EmptyPack ==
    /\ call = "check" /\ params = <<>> => result = <<TRUE>>
    /\ call = "no_duplicates" /\ Len(params) <= 1 => result = <<TRUE>>
    /\ call = "extract" /\ params = <<>> => result = <<value_defaultValue(supplied)>>

C5_Witness ==
    /\ call = "extract"
    /\ params = <<>>
    /\ supplied # <<>>
    /\ supplied[1] # ValueInitialized
    /\ result = supplied

\* C6: on a miss extract is the default as configured (the supplied one,
\* the value-initialized value when none is supplied); on a hit it is the
\* parameter's value whatever the default.
C6_DefaultOnlyOnMiss ==
    call = "extract" =>
        /\ Matches(Type, params) = {} =>
              /\ supplied # <<>> => result = supplied
              /\ supplied = <<>> => result = <<ValueInitialized>>
        /\ Matches(Type, params) # {} =>
              result[1] = params[Leftmost(Matches(Type, params))].val

\* a miss on a non-empty pack with a default other than the
\* value-initialized value
C6_Witness ==
    /\ call = "extract"
    /\ Len(params) >= 1
    /\ Matches(Type, params) = {}
    /\ supplied # <<>>
    /\ supplied[1] # ValueInitialized
    /\ result = supplied

\* C8: on a pack that no_duplicates accepts, extract on the type of any
\* parameter returns that parameter's value, for every default.
C8_NoDuplicatesRecoversEach ==
    call = "extract" /\ no_duplicates(params) =>
        \A i \in 1..Len(params) :
            TypeOf(params[i]) = Type => result[1] = params[i].val

\* the requested parameter is the last of a duplicate-free pack
C8_Witness ==
    /\ call = "extract"
    /\ Len(params) = 3
    /\ no_duplicates(params)
    /\ TypeOf(params[3]) = Type
    /\ params[3].val # defaultValue
    /\ result = <<params[3].val>>

\* C9: a pack that passes both check and no_duplicates has pairwise
\* distinct types, all in L, and is no longer than the number of distinct
\* types of L; a longer pack fails one of the two.
C9_GateBoundsPack ==
    call = "check" =>
        /\ result[1] /\ no_duplicates(params) =>
              /\ Len(params) <= Cardinality(TypesOf(list))
              /\ PairwiseDistinctTypes(params)
              /\ AllMembers(list, params)
        /\ Len(params) > Cardinality(TypesOf(list)) =>
              ~(result[1] /\ no_duplicates(params))

\* a pack that passes the gate and uses every type of a two-type list
C9_Witness ==
    /\ call = "check"
    /\ Cardinality(TypesOf(list)) = 2
    /\ Len(params) = 2
    /\ result = <<TRUE>>
    /\ no_duplicates(params)

\* C10: check depends only on the set of types of L: a list with the same
\* types in another order, or with types repeated, gives the same result.
C10_ListAsSet ==
    call = "check" =>
        \A L2 \in TypeLists :
            TypesOf(L2) = TypesOf(list) => check(L2, params) = result[1]

\* a parameter allowed only by the last type of the list
C10_Witness ==
    /\ call = "check"
    /\ Len(list) = 2
    /\ list[1] # list[2]
    /\ \E i \in 1..Len(params) : TypeOf(params[i]) = list[2]
    /\ result = <<TRUE>>

====
